---- MODULE Spec2Model ----
(***************************************************************************)
(* Model of datadog_checks/rethinkdb/_queries.py: the ReQL queries that    *)
(* join the RethinkDB system tables `stats`, `server_config`,              *)
(* `table_config` and `table_status` into (server, stats), (table, stats)  *)
(* and (table, server, replica, stats) tuples.                             *)
(*                                                                         *)
(* Documents are functions from field names to values, so that `pluck`,    *)
(* `without` and `merge` act on the set of fields a document really has.   *)
(* A system table is the sequence of its rows in scan order; primary keys  *)
(* are unique.  The result of `get` is <<>> (ReQL null) or <<row>>.        *)
(***************************************************************************)
EXTENDS Integers, Sequences, FiniteSets, TLC

VARIABLES stats, server_config, table_config, table_status, results

vars == <<stats, server_config, table_config, table_status, results>>

-----------------------------------------------------------------------------
(* Bounds of the explored snapshots.                                       *)

\* At most this many shards in the whole table_status snapshot.
MaxShards == 2

\* UUIDs in use; servers and tables draw from the same pool so that a key
\* of one kind can collide with a key of the other kind.
Ids == <<"a", "b">>

IdSet == {Ids[i] : i \in 1..Len(Ids)}

\* ReQL null as a field value (Python None).
Null == "null"

-----------------------------------------------------------------------------
(* Rows of the system tables, as RethinkDB generates them.                 *)

ClusterStatsRow ==
    [id |-> <<"cluster">>,
     query_engine |-> <<"qe", "cluster">>]

ServerStatsRow(s) ==
    [id |-> <<"server", s>>,
     server |-> s,
     query_engine |-> <<"qe", "server", s>>,
     storage_engine |-> <<"se", "server", s>>]

TableStatsRow(t) ==
    [id |-> <<"table", t>>,
     table |-> t,
     db |-> "d",
     query_engine |-> <<"qe", "table", t>>]

ReplicaStatsRow(t, s) ==
    [id |-> <<"table_server", t, s>>,
     table |-> t,
     db |-> "d",
     server |-> s,
     query_engine |-> <<"qe", "table_server", t, s>>,
     storage_engine |-> <<"se", "table_server", t, s>>]

ServerConfigRow(s) ==
    [id |-> s, name |-> <<"server", s>>, tags |-> {<<"tag", s>>},
     cache_size_mb |-> "auto"]

TableConfigRow(t) ==
    [id |-> t, db |-> "d", name |-> <<"table", t>>, primary_key |-> "id",
     durability |-> "hard"]

ReplicaEntry(s, st) == [server |-> s, state |-> st]

ShardEntry(replicas) ==
    [primary_replicas |-> IF replicas = <<>> THEN <<>> ELSE <<replicas[1].server>>,
     replicas |-> replicas]

TableStatusRow(t, shards) ==
    [id |-> t, db |-> "d", name |-> <<"table", t>>, shards |-> shards]

-----------------------------------------------------------------------------
(* ReQL commands used by the queries.                                      *)

\* obj.pluck(f1, f2, ...): the listed fields the object has; others skipped.
Pluck(obj, fields) == [f \in (DOMAIN obj) \cap fields |-> obj[f]]

\* obj.without(f1, ...)
Without(obj, fields) == [f \in (DOMAIN obj) \ fields |-> obj[f]]

\* obj.merge(other): fields of `other` win.  No query here merges two
\* objects under the same field, so the recursion of ReQL's merge is not
\* exercised.
Merge(obj, other) ==
    [f \in (DOMAIN obj) \cup (DOMAIN other) |->
        IF f \in DOMAIN other THEN other[f] ELSE obj[f]]

\* table.get(key): <<row>> for the row whose primary key is `key`, else <<>>.
Get(table, key) == SelectSeq(table, LAMBDA row : row.id = key)

\* value.default(d): replaces null (and a non-existence error) by d.
Default(opt, d) == IF opt = <<>> THEN d ELSE opt[1]

RECURSIVE Concat(_)
\* The concatenation of a sequence of sequences: seq.concat_map(f) is
\* Concat of seq.map(f), and seq.map(f) is written [i \in DOMAIN seq |-> f].
Concat(seqs) ==
    IF seqs = <<>> THEN <<>> ELSE Head(seqs) \o Concat(Tail(seqs))

-----------------------------------------------------------------------------
(* query_cluster_stats                                                     *)

\* stats.get(['cluster']): the row itself, or null.
ClusterStatsQuery(st) == Get(st, <<"cluster">>)

-----------------------------------------------------------------------------
(* query_servers_with_stats / query_tables_with_stats                      *)

\* Variant: the filter does not compare the first element with the kind.
IsStatsRowOfAnyKind(kind, row) == Len(row.id) >= 1

\* r.row['id'].nth(0) == kind, as a filter predicate: nth(0) of an empty
\* array is a non-existence error, which filter turns into "skip the row".
IsStatsRowOf(kind, row) == Len(row.id) >= 1 /\ row.id[1] = kind

\* Variant: an outer join, which keeps a left row without a match.
EqJoinKeepsUnmatched(left, right) ==
    LET pairs(l) ==
            IF Len(l.id) < 2 THEN <<>>
            ELSE IF Get(right, l.id[2]) = <<>>
                 THEN <<[left |-> l, right |-> [id |-> Null]]>>
                 ELSE <<[left |-> l, right |-> Get(right, l.id[2])[1]]>>
    IN  Concat([i \in DOMAIN left |-> pairs(left[i])])

\* left.eq_join(r.row['id'].nth(1), right): every left row is paired with
\* the right rows whose primary key equals the left key; a left row whose
\* key is missing or matches no right row yields nothing.
EqJoinOnId2(left, right) ==
    LET matches(l) == Get(right, l.id[2])
        pairs(l) ==
            IF Len(l.id) < 2 THEN <<>>
            ELSE [j \in DOMAIN matches(l) |-> [left |-> l, right |-> matches(l)[j]]]
    IN  Concat([i \in DOMAIN left |-> pairs(left[i])])

\* The tuples query_servers_with_stats yields: (row['right'], row['left']).
ServersWithStats(st, sc) ==
    LET rows == EqJoinOnId2(SelectSeq(st, LAMBDA row : IsStatsRowOf("server", row)),
                            sc)
    IN  [i \in DOMAIN rows |-> <<rows[i].right, rows[i].left>>]

\* The tuples query_tables_with_stats yields.
TablesWithStats(st, tc) ==
    LET rows == EqJoinOnId2(SelectSeq(st, LAMBDA row : IsStatsRowOf("table", row)),
                            tc)
    IN  [i \in DOMAIN rows |-> <<rows[i].right, rows[i].left>>]

-----------------------------------------------------------------------------
(* query_replicas_with_stats                                               *)

\* A row whose evaluation raised a ReQL error.
ReqlError == [error |-> "ReqlQueryLogicError"]

IsError(row) == "error" \in DOMAIN row

\* table_status.pluck('id', {'shards': ['replicas']})
\*             .merge({'table': r.row['id']}).without('id')
StatusHead(row) ==
    LET plucked == Merge(Pluck(row, {"id"}),
                         [shards |-> [j \in DOMAIN row.shards |->
                                         Pluck(row.shards[j], {"replicas"})]])
    IN  Without(Merge(plucked, [table |-> plucked.id]), {"id"})

\* Variant: only the first shard of every table is expanded.
FlattenFirstShard(rows) ==
    LET perRow(row) ==
            [j \in DOMAIN row.shards \cap {1} |->
                Merge(row, Pluck(row.shards[j], {"replicas"}))]
        flat == Concat([i \in DOMAIN rows |-> perRow(rows[i])])
    IN  [i \in DOMAIN flat |-> Without(flat[i], {"shards"})]

\* .concat_map(lambda row: row['shards'].map(
\*                 lambda shard: row.merge(shard.pluck('replicas'))))
\* .without('shards')
FlattenShards(rows) ==
    LET perRow(row) ==
            [j \in DOMAIN row.shards |->
                Merge(row, Pluck(row.shards[j], {"replicas"}))]
        flat == Concat([i \in DOMAIN rows |-> perRow(rows[i])])
    IN  [i \in DOMAIN flat |-> Without(flat[i], {"shards"})]

\* Variant: the replica is pruned to its server alone.
FlattenReplicasServerOnly(rows) ==
    LET perRow(row) ==
            [k \in DOMAIN row.replicas |->
                Merge(row, [replica |-> Pluck(row.replicas[k], {"server"})])]
        flat == Concat([i \in DOMAIN rows |-> perRow(rows[i])])
    IN  [i \in DOMAIN flat |-> Without(flat[i], {"replicas"})]

\* .concat_map(lambda row: row['replicas'].map(
\*     lambda replica: row.merge({'replica': replica.pluck('server', 'state')})))
\* .without('replicas')
FlattenReplicas(rows) ==
    LET perRow(row) ==
            [k \in DOMAIN row.replicas |->
                Merge(row, [replica |-> Pluck(row.replicas[k], {"server", "state"})])]
        flat == Concat([i \in DOMAIN rows |-> perRow(rows[i])])
    IN  [i \in DOMAIN flat |-> Without(flat[i], {"replicas"})]

\* The flattened records {table: <id>, replica: {server, state}}.
Flatten(ts) == FlattenReplicas(FlattenShards([i \in DOMAIN ts |-> StatusHead(ts[i])]))

\* Variant: the whole table_config row is merged, without pluck.
MergeTableNoPluck(row, tc) ==
    LET found == Get(tc, row.table)
    IN  IF found = <<>> THEN ReqlError ELSE Merge(row, [table |-> found[1]])

\* Variant: a missing table_config row is defaulted like a missing server.
MergeTableDefault(row, tc) ==
    Merge(row, [table |-> Pluck(Default(Get(tc, row.table), [id |-> Null]),
                                {"id", "db", "name"})])

\* .merge({'table': table_config.get(r.row['table']).pluck('id', 'db', 'name')})
\* pluck of null is a ReQL error: there is no default() on this lookup.
MergeTable(row, tc) ==
    LET found == Get(tc, row.table)
    IN  IF found = <<>> THEN ReqlError
        ELSE Merge(row, [table |-> Pluck(found[1], {"id", "db", "name"})])

\* Variant: no default() on the server lookup, so pluck of null raises.
MergeServerNoDefault(row, sc) ==
    IF IsError(row) THEN row
    ELSE IF Get(sc, row.replica.server) = <<>> THEN ReqlError
    ELSE Merge(row, [server |-> Pluck(Get(sc, row.replica.server)[1],
                                      {"id", "name", "tags"})])

\* .merge({'server': server_config.get(r.row['replica']['server'])
\*                   .default({'id': None}).pluck('id', 'name', 'tags')})
MergeServer(row, sc) ==
    IF IsError(row) THEN row
    ELSE Merge(row,
               [server |-> Pluck(Default(Get(sc, row.replica.server), [id |-> Null]),
                                 {"id", "name", "tags"})])

\* Variant: no default() on the stats lookup, so pluck of null raises.
MergeStatsNoDefault(row, st) ==
    IF IsError(row) THEN row
    ELSE IF Get(st, <<"table_server", row.table.id, row.server.id>>) = <<>>
         THEN ReqlError
    ELSE Merge(row,
               [stats |-> Pluck(Get(st, <<"table_server", row.table.id,
                                          row.server.id>>)[1],
                                {"query_engine", "storage_engine"})])

\* Variant: the stats row is looked up with replica.server.
MergeStatsByReplicaServer(row, st) ==
    IF IsError(row) THEN row
    ELSE Merge(row,
               [stats |-> Pluck(Default(Get(st, <<"table_server", row.table.id,
                                                 row.replica.server>>), << >>),
                                {"query_engine", "storage_engine"})])

\* .merge({'stats': stats.get(['table_server', r.row['table']['id'],
\*                             r.row['server']['id']])
\*                  .default({}).pluck('query_engine', 'storage_engine')})
MergeStats(row, st) ==
    IF IsError(row) THEN row
    ELSE Merge(row,
               [stats |-> Pluck(Default(Get(st, <<"table_server", row.table.id,
                                                 row.server.id>>), << >>),
                                {"query_engine", "storage_engine"})])

\* One flattened record through the three lookups.
Enrich(row, st, sc, tc) == MergeStats(MergeServer(MergeTable(row, tc), sc), st)

\* The rows of the whole ReQL query, in order; a row is ReqlError where its
\* evaluation raised.
ReplicaQuery(st, sc, tc, ts) ==
    LET flat == Flatten(ts)
    IN  [i \in DOMAIN flat |-> Enrich(flat[i], st, sc, tc)]

\* What the generator's loop makes of one row.
ReplicaTuple(row) == <<row.table, row.server, row.replica, row.stats>>

\* Number of rows before the first one that raised (all of them if none).
RECURSIVE GoodPrefix(_)
GoodPrefix(rows) ==
    IF rows = <<>> \/ IsError(Head(rows)) THEN 0 ELSE 1 + GoodPrefix(Tail(rows))

-----------------------------------------------------------------------------
(* Snapshots of the system tables.                                         *)

\* The ids of `set`, in the scan order Ids.
Scan(set) == SelectSeq(Ids, LAMBDA i : i \in set)

\* The stats table: the cluster row (always there), then the rows of the
\* given servers, tables and (table, server) pairs.
StatsTable(servers, tables, pairs) ==
    LET ofTable(t) == Scan({x \in IdSet : <<t, x>> \in pairs})
    IN  <<ClusterStatsRow>>
        \o [i \in DOMAIN Scan(servers) |-> ServerStatsRow(Scan(servers)[i])]
        \o [i \in DOMAIN Scan(tables) |-> TableStatsRow(Scan(tables)[i])]
        \o Concat([i \in DOMAIN Ids |->
                     [j \in DOMAIN ofTable(Ids[i]) |->
                         ReplicaStatsRow(Ids[i], ofTable(Ids[i])[j])]])

\* The replica lists a shard may have.
ShardChoices_AB == <<ReplicaEntry("a", "ready"), ReplicaEntry("b", "disconnected")>>

ShardChoices_BA == <<ReplicaEntry("b", "ready"), ReplicaEntry("a", "ready")>>

ShardChoices ==
    { <<>>, <<ReplicaEntry("a", "ready")>>, ShardChoices_AB, ShardChoices_BA }

ShardLists == UNION {[1..n -> ShardChoices] : n \in 0..MaxShards}

\* For every id: <<>> (no table_status row) or <<replica lists of its shards>>.
Layouts ==
    LET count(l) == IF l = <<>> THEN 0 ELSE Len(l[1])
        RECURSIVE total(_, _)
        total(f, i) == IF i = 0 THEN 0 ELSE count(f[Ids[i]]) + total(f, i - 1)
    IN  {f \in [IdSet -> {<<>>} \cup {<<l>> : l \in ShardLists}] :
            total(f, Len(Ids)) <= MaxShards}

StatusTable(layout) ==
    LET shards(l) == [j \in DOMAIN l |-> ShardEntry(l[j])]
    IN  Concat([i \in DOMAIN Ids |->
                  [j \in DOMAIN layout[Ids[i]] |->
                      TableStatusRow(Ids[i], shards(layout[Ids[i]][j]))]])

Snapshot(servers, tables, pairs, sc, tc, layout) ==
    [stats |-> StatsTable(servers, tables, pairs),
     server_config |-> [i \in DOMAIN Scan(sc) |-> ServerConfigRow(Scan(sc)[i])],
     table_config |-> [i \in DOMAIN Scan(tc) |-> TableConfigRow(Scan(tc)[i])],
     table_status |-> StatusTable(layout)]

AllPairs == IdSet \X IdSet

\* The explored snapshots.  The four tables are read independently, so any
\* combination of rows can be seen; three families of combinations are
\* explored.
\* (1) Every combination of server/table stats rows and config rows, with
\*     one table of one shard.
JoinSnapshots ==
    LET layout == [t \in IdSet |->
                     IF t = "a" THEN <<  <<ShardChoices_AB>>  >> ELSE <<>>]
    IN  {Snapshot(s, t, {<<"a", "a">>}, sc, tc, layout) :
            s \in SUBSET IdSet, t \in SUBSET IdSet,
            sc \in SUBSET IdSet, tc \in SUBSET IdSet}

\* (2) Every shard layout within MaxShards, in a healthy cluster, with
\*     server "b" disconnected (its replica stats rows partly still there),
\*     with table "b" dropped from table_config, and with server "a" and
\*     table "a" both gone.
LayoutSnapshots ==
    {Snapshot(IdSet, IdSet, e.pairs, e.sc, e.tc, layout) :
        e \in { [pairs |-> AllPairs, sc |-> IdSet, tc |-> IdSet],
                [pairs |-> {<<"a", "a">>, <<"a", "b">>, <<"b", "a">>},
                 sc |-> {"a"}, tc |-> IdSet],
                [pairs |-> {<<"a", "a">>, <<"b", "b">>}, sc |-> IdSet, tc |-> {"a"}],
                [pairs |-> {<<"b", "b">>}, sc |-> {"b"}, tc |-> {"b"}] },
        layout \in Layouts}

\* (3) Every combination of replica stats rows and config rows, with two
\*     tables of one two-replica shard each.
LookupSnapshots ==
    LET layout == [t \in IdSet |->
                     IF t = "a" THEN <<  <<ShardChoices_AB>>  >>
                                ELSE <<  <<ShardChoices_BA>>  >>]
    IN  {Snapshot(IdSet, IdSet, pairs, sc, tc, layout) :
            pairs \in SUBSET AllPairs, sc \in SUBSET IdSet, tc \in SUBSET IdSet}

Snapshots == JoinSnapshots \cup LayoutSnapshots \cup LookupSnapshots

Families == {"cluster", "servers", "tables", "replicas"}

Idle == [status |-> "idle", error |-> "none", rows |-> <<>>]

Init ==
    /\ \E snap \in Snapshots :
          /\ stats = snap.stats
          /\ server_config = snap.server_config
          /\ table_config = snap.table_config
          /\ table_status = snap.table_status
    /\ results = [f \in Families |-> Idle]

-----------------------------------------------------------------------------
(* One collection cycle: each query function is called at most once, in    *)
(* any order; the tables are not written by the integration.               *)

Ok(rows) == [status |-> "ok", error |-> "none", rows |-> rows]

Raised(error, rows) == [status |-> "raised", error |-> error, rows |-> rows]

\* Variant: an exception in one family ends the whole cycle.
RunRaisesAbortsCycle(f) ==
    /\ results[f].status = "idle"
    /\ results' = [g \in Families |->
                     IF results[g].status = "idle"
                     THEN Raised("ReqlDriverError", <<>>) ELSE results[g]]
    /\ UNCHANGED <<stats, server_config, table_config, table_status>>

\* run(conn) itself raises (connection lost, timeout, permission): the
\* caller of family f gets the exception and no row.
RunRaises(f) ==
    /\ results[f].status = "idle"
    /\ results' = [results EXCEPT ![f] = Raised("ReqlDriverError", <<>>)]
    /\ UNCHANGED <<stats, server_config, table_config, table_status>>

query_cluster_stats ==
    /\ results["cluster"].status = "idle"
    /\ results' = [results EXCEPT !["cluster"] = Ok(ClusterStatsQuery(stats))]
    /\ UNCHANGED <<stats, server_config, table_config, table_status>>

query_servers_with_stats ==
    /\ results["servers"].status = "idle"
    /\ results' = [results EXCEPT
                     !["servers"] = Ok(ServersWithStats(stats, server_config))]
    /\ UNCHANGED <<stats, server_config, table_config, table_status>>

query_tables_with_stats ==
    /\ results["tables"].status = "idle"
    /\ results' = [results EXCEPT
                     !["tables"] = Ok(TablesWithStats(stats, table_config))]
    /\ UNCHANGED <<stats, server_config, table_config, table_status>>

\* The cursor is consumed row by row.  When the evaluation of a row raises,
\* the generator raises too; the rows of earlier batches were already
\* yielded, and how many those are depends on the batching.
query_replicas_with_stats ==
    /\ results["replicas"].status = "idle"
    /\ LET rows == ReplicaQuery(stats, server_config, table_config, table_status)
           good == GoodPrefix(rows)
           tuples == [i \in 1..good |-> ReplicaTuple(rows[i])]
       IN  IF good = Len(rows)
           THEN results' = [results EXCEPT !["replicas"] = Ok(tuples)]
           ELSE \E k \in 0..good :
                   results' = [results EXCEPT !["replicas"] =
                      Raised(rows[good + 1].error, SubSeq(tuples, 1, k))]
    /\ UNCHANGED <<stats, server_config, table_config, table_status>>

Next ==
    \/ query_cluster_stats
    \/ query_servers_with_stats
    \/ query_tables_with_stats
    \/ query_replicas_with_stats
    \/ \E f \in Families : RunRaises(f)

Spec == Init /\ [][Next]_vars

-----------------------------------------------------------------------------
(* Vocabulary of the properties, stated on the tables themselves.          *)

HasRow(table, key) == \E i \in DOMAIN table : table[i].id = key

RowOf(table, key) == table[CHOOSE i \in DOMAIN table : table[i].id = key]

\* The kind the identifier of a stats row encodes.
KindOf(id) ==
    IF Len(id) = 2 /\ id[1] = "server" THEN "server"
    ELSE IF Len(id) = 2 /\ id[1] = "table" THEN "table"
    ELSE IF Len(id) = 3 /\ id[1] = "table_server" THEN "table_server"
    ELSE "unclassified"

RECURSIVE ReplicaCount(_)
\* Number of replicas in a list of shards.
ReplicaCount(shards) ==
    IF shards = <<>> THEN 0
    ELSE Len(Head(shards).replicas) + ReplicaCount(Tail(shards))

RECURSIVE TotalReplicas(_)
TotalReplicas(ts) ==
    IF ts = <<>> THEN 0 ELSE ReplicaCount(Head(ts).shards) + TotalReplicas(Tail(ts))

RECURSIVE ShardAnchors(_, _)
\* <<table id, replica entry>> for every replica of the shards, in order.
ShardAnchors(t, shards) ==
    IF shards = <<>> THEN <<>>
    ELSE [k \in 1..Len(Head(shards).replicas) |-> <<t, Head(shards).replicas[k]>>]
         \o ShardAnchors(t, Tail(shards))

RECURSIVE Anchors(_)
Anchors(ts) ==
    IF ts = <<>> THEN <<>>
    ELSE ShardAnchors(Head(ts).id, Head(ts).shards) \o Anchors(Tail(ts))

\* Some table_status row with at least one replica has no table_config row.
SomeReplicaOfUnknownTable ==
    \E i \in DOMAIN table_status :
        /\ ReplicaCount(table_status[i].shards) > 0
        /\ ~HasRow(table_config, table_status[i].id)

Servers == results["servers"]
Tables == results["tables"]
Replicas == results["replicas"]
Cluster == results["cluster"]

\* The call of the replica query is over and the connection did not break.
ReplicasEvaluated == Replicas.status # "idle" /\ Replicas.error # "ReqlDriverError"

-----------------------------------------------------------------------------
\* C1: whenever query_servers_with_stats has run, it has yielded exactly one
\* tuple (config row of S, stats row of S) for every server S with a stats
\* row ['server', S] and a server_config row S, and no tuple for an S that
\* lacks either row.
C1_InnerJoinLaw ==
    Servers.status = "ok" =>
        \A s \in IdSet :
            LET both == HasRow(stats, <<"server", s>>) /\ HasRow(server_config, s)
                byStats == Cardinality({i \in DOMAIN Servers.rows :
                                            Servers.rows[i][2].id = <<"server", s>>})
                byConfig == Cardinality({i \in DOMAIN Servers.rows :
                                             Servers.rows[i][1].id = s})
            IN  IF both
                THEN /\ byStats = 1 /\ byConfig = 1
                     /\ \E i \in DOMAIN Servers.rows :
                           Servers.rows[i] = <<RowOf(server_config, s),
                                               RowOf(stats, <<"server", s>>)>>
                ELSE byStats = 0 /\ byConfig = 0

\* A server with both rows was yielded while another server's stats row had
\* no config row.
C1_Witness ==
    /\ Servers.status = "ok"
    /\ Len(Servers.rows) = 1
    /\ \E s \in IdSet : HasRow(stats, <<"server", s>>) /\ ~HasRow(server_config, s)

C3_FlattenSizePreserving ==
    LET flat == Flatten(table_status)
    IN  /\ \A i \in DOMAIN table_status :
              Cardinality({k \in DOMAIN flat : flat[k].table = table_status[i].id})
                  = ReplicaCount(table_status[i].shards)
        /\ Len(flat) = TotalReplicas(table_status)
        /\ \A i \in DOMAIN flat : DOMAIN flat[i].replica = {"server", "state"}
        /\ Replicas.status = "ok" => Len(Replicas.rows) = TotalReplicas(table_status)

\* The query ran over a table without shards and a table with an empty
\* shard next to a shard of two replicas.
C3_Witness ==
    /\ Replicas.status = "ok"
    /\ Len(Replicas.rows) = 2
    /\ \E i \in DOMAIN table_status : table_status[i].shards = <<>>
    /\ \E i \in DOMAIN table_status :
          \E j \in DOMAIN table_status[i].shards :
              table_status[i].shards[j].replicas = <<>>

\* C4 as stated: every call of query_replicas_with_stats that the connection
\* let through yields one tuple for every flattened replica record.
C4_EnrichmentTotal ==
    ReplicasEvaluated => Len(Replicas.rows) = TotalReplicas(table_status)

\* C4, amended: when every table of table_status that has a replica has a
\* table_config row, the query does not raise and yields exactly one tuple
\* per flattened record, in order (with {id: null} for an unknown server and
\* {} for missing statistics); otherwise it raises and has yielded at most
\* one tuple per record, for records before the first one of an unknown
\* table.
C4_EnrichmentTotalIfTablesKnown ==
    ReplicasEvaluated =>
        LET anchors == Anchors(table_status)
            match(i) == /\ Replicas.rows[i][1].id = anchors[i][1]
                        /\ Replicas.rows[i][3] = anchors[i][2]
                        /\ DOMAIN Replicas.rows[i][2] \subseteq {"id", "name", "tags"}
                        /\ DOMAIN Replicas.rows[i][4]
                              \subseteq {"query_engine", "storage_engine"}
        IN  /\ Len(Replicas.rows) <= Len(anchors)
            /\ \A i \in DOMAIN Replicas.rows : match(i)
            /\ IF SomeReplicaOfUnknownTable
               THEN /\ Replicas.status = "raised"
                    /\ \E i \in DOMAIN anchors :
                          /\ ~HasRow(table_config, anchors[i][1])
                          /\ Len(Replicas.rows) < i
               ELSE /\ Replicas.status = "ok"
                    /\ Len(Replicas.rows) = Len(anchors)

\* The query ran to its end and yielded a tuple with the default server and
\* empty statistics, and a tuple with a known server and statistics.
C4_Witness ==
    /\ Replicas.status = "ok"
    /\ \E i \in DOMAIN Replicas.rows :
          Replicas.rows[i][2].id = Null /\ Replicas.rows[i][4] = << >>
    /\ \E i \in DOMAIN Replicas.rows :
          Replicas.rows[i][2].id # Null /\ Replicas.rows[i][4] # << >>

\* C5 as stated: the server component of a replica whose server has no
\* server_config row is {id: null, tags: empty} with no name, and that of a
\* replica whose server has a row is the row's {id, name, tags}.
C5_DefaultServerWithEmptyTags ==
    \A i \in DOMAIN Replicas.rows :
        LET tp == Replicas.rows[i]
        IN  IF HasRow(server_config, tp[3].server)
            THEN tp[2] = Pluck(RowOf(server_config, tp[3].server),
                               {"id", "name", "tags"})
            ELSE tp[2] = [id |-> Null, tags |-> {}]

\* C5, amended: a replica whose server has no server_config row never makes
\* the query raise, and the server component of its tuple is {id: null},
\* with neither a name nor a tags field; for a replica whose server has a
\* row, the server component is that row's {id, name, tags}.
C5_DefaultServerIsIdNull ==
    /\ \A i \in DOMAIN Replicas.rows :
          LET tp == Replicas.rows[i]
          IN  IF HasRow(server_config, tp[3].server)
              THEN LET row == RowOf(server_config, tp[3].server)
                   IN  tp[2] = [id |-> row.id, name |-> row.name, tags |-> row.tags]
              ELSE tp[2] = [id |-> Null]
    /\ Replicas.error = "ReqlQueryLogicError" => SomeReplicaOfUnknownTable
    /\ (ReplicasEvaluated /\ ~SomeReplicaOfUnknownTable) =>
          /\ Replicas.status = "ok"
          /\ Len(Replicas.rows) = TotalReplicas(table_status)

\* The query ran to its end over replicas of a server with and of a server
\* without a server_config row.
C5_Witness ==
    /\ Replicas.status = "ok"
    /\ \E i \in DOMAIN Replicas.rows :
          ~HasRow(server_config, Replicas.rows[i][3].server)
    /\ \E i \in DOMAIN Replicas.rows :
          HasRow(server_config, Replicas.rows[i][3].server)

OnlyReplicaFields(tp) ==
    /\ DOMAIN tp[1] \subseteq {"id", "db", "name"}
    /\ DOMAIN tp[2] \subseteq {"id", "name", "tags"}
    /\ DOMAIN tp[3] \subseteq {"server", "state"}
    /\ DOMAIN tp[4] \subseteq {"query_engine", "storage_engine"}

\* C6 as stated: the tuples of all three families carry only the declared
\* fields.
C6_OnlyDeclaredFields ==
    /\ \A i \in DOMAIN Servers.rows :
          /\ DOMAIN Servers.rows[i][1] \subseteq {"id", "name", "tags"}
          /\ DOMAIN Servers.rows[i][2] \subseteq {"query_engine", "storage_engine"}
    /\ \A i \in DOMAIN Tables.rows :
          /\ DOMAIN Tables.rows[i][1] \subseteq {"id", "db", "name"}
          /\ DOMAIN Tables.rows[i][2] \subseteq {"query_engine", "storage_engine"}
    /\ \A i \in DOMAIN Replicas.rows : OnlyReplicaFields(Replicas.rows[i])

\* C6, amended: the tuples of query_replicas_with_stats carry only the
\* declared fields; the tuples of query_servers_with_stats and
\* query_tables_with_stats carry the whole server_config / table_config row
\* and the whole stats row, with every field the tables hold.
C6_OnlyReplicasArePlucked ==
    /\ \A i \in DOMAIN Replicas.rows : OnlyReplicaFields(Replicas.rows[i])
    /\ \A i \in DOMAIN Servers.rows :
          /\ \E j \in DOMAIN server_config : Servers.rows[i][1] = server_config[j]
          /\ \E j \in DOMAIN stats : Servers.rows[i][2] = stats[j]
    /\ \A i \in DOMAIN Tables.rows :
          /\ \E j \in DOMAIN table_config : Tables.rows[i][1] = table_config[j]
          /\ \E j \in DOMAIN stats : Tables.rows[i][2] = stats[j]

\* The three families each yielded a tuple.
C6_Witness ==
    /\ Servers.status = "ok" /\ Len(Servers.rows) >= 1
    /\ Tables.status = "ok" /\ Len(Tables.rows) >= 1
    /\ Replicas.status = "ok" /\ Len(Replicas.rows) >= 2
    /\ \E i \in DOMAIN Replicas.rows : Replicas.rows[i][4] # << >>

\* C7 as stated: once the query was called while some table_status row has
\* no table_config row, the call has raised and yielded no tuple of that
\* table.
C7_UnknownTableRaises ==
    \A i \in DOMAIN table_status :
        (Replicas.status # "idle" /\ ~HasRow(table_config, table_status[i].id)) =>
            /\ Replicas.status = "raised"
            /\ \A k \in DOMAIN Replicas.rows :
                  Replicas.rows[k][1].id # table_status[i].id

\* C7, amended: the call raises a query error exactly when some
\* table_status row with at least one replica has no table_config row (a
\* row without replicas is never looked up); every tuple yielded, before a
\* failure too, has the complete {id, db, name} of a table_config row.
C7_UnknownTableWithReplicaRaises ==
    /\ ReplicasEvaluated =>
          (Replicas.error = "ReqlQueryLogicError" <=> SomeReplicaOfUnknownTable)
    /\ Replicas.status = "ok" => ~SomeReplicaOfUnknownTable
    /\ \A k \in DOMAIN Replicas.rows :
          /\ HasRow(table_config, Replicas.rows[k][1].id)
          /\ DOMAIN Replicas.rows[k][1] = {"id", "db", "name"}

\* The query raised on a table without table_config row after it had
\* yielded the tuples of another table.
C7_Witness ==
    /\ Replicas.error = "ReqlQueryLogicError"
    /\ Len(Replicas.rows) >= 1
    /\ SomeReplicaOfUnknownTable

\* What a family has yielded is decided by the tables alone, whatever became
\* of the other families: a family that ran to its end has all its tuples,
\* and only the replica family raises a query error, on a lookup of its own.
C8_Unaltered ==
    /\ Servers.status = "ok" =>
          Len(Servers.rows) = Cardinality({x \in IdSet :
              HasRow(stats, <<"server", x>>) /\ HasRow(server_config, x)})
    /\ Tables.status = "ok" =>
          Len(Tables.rows) = Cardinality({x \in IdSet :
              HasRow(stats, <<"table", x>>) /\ HasRow(table_config, x)})
    /\ Replicas.status = "ok" => Len(Replicas.rows) = TotalReplicas(table_status)
    /\ Cluster.status = "ok" => Len(Cluster.rows) = 1
    /\ \A f \in Families :
          results[f].error = "ReqlQueryLogicError" =>
              f = "replicas" /\ SomeReplicaOfUnknownTable

\* A step sets the result of one family that was not requested before, and
\* leaves what the other families have yielded as it is.
C8_OneFamilyPerStep ==
    \A f \in Families :
        results'[f] # results[f] =>
            /\ results[f].status = "idle"
            /\ \A g \in Families \ {f} : results'[g] = results[g]

\* C8: in every order of requests, a step of one family (its tuples, a lost
\* connection, a failed lookup in the replica query) leaves the results of
\* the other families as they are, and the family requested next yields the
\* tuples the tables decide, whatever the families before it ended as.
C8_IndependentFamilies == [][C8_OneFamilyPerStep /\ C8_Unaltered']_vars

\* The server family lost its connection, the replica family raised on a
\* lookup, and the table family yielded its tuples after both.
C8_Witness ==
    /\ Servers.error = "ReqlDriverError"
    /\ Replicas.error = "ReqlQueryLogicError"
    /\ Tables.status = "ok" /\ Len(Tables.rows) >= 1
    /\ Cluster.status = "idle"

\* C9: the k-th tuple the replica query yields belongs to the k-th replica
\* entry of table_status, counted through tables and shards: its table
\* component is the {id, db, name} of the table_config row of the table
\* whose status row holds that entry, and its replica component is the
\* entry's {server, state}; so the tuples of one table share one table info.
C9_TableAnchor ==
    LET anchors == Anchors(table_status)
    IN  /\ Len(Replicas.rows) <= Len(anchors)
        /\ \A k \in DOMAIN Replicas.rows :
              LET tp == Replicas.rows[k]
                  t == anchors[k][1]
              IN  /\ tp[1].id = t
                  /\ HasRow(table_config, t)
                  /\ tp[1] = [id |-> t, db |-> RowOf(table_config, t).db,
                              name |-> RowOf(table_config, t).name]
                  /\ tp[3] = [server |-> anchors[k][2].server,
                              state |-> anchors[k][2].state]

\* The query yielded tuples of two tables, two of them of the same table.
C9_Witness ==
    /\ Replicas.status = "ok"
    /\ \E i, j, k \in DOMAIN Replicas.rows :
          /\ i # j
          /\ Replicas.rows[i][1] = Replicas.rows[j][1]
          /\ Replicas.rows[i][3] # Replicas.rows[j][3]
          /\ Replicas.rows[k][1].id # Replicas.rows[i][1].id

\* C10: the stats component of a tuple is looked up with the id of the
\* resolved server: it is {} when the replica's server has no server_config
\* row, whatever rows the stats table has; otherwise it is the
\* {query_engine, storage_engine} of the row ['table_server', table, server]
\* when there is one, and {} when there is none.
C10_StatsByResolvedServer ==
    \A i \in DOMAIN Replicas.rows :
        LET tp == Replicas.rows[i]
            key == <<"table_server", tp[1].id, tp[3].server>>
        IN  IF HasRow(server_config, tp[3].server) /\ HasRow(stats, key)
            THEN tp[4] = [query_engine |-> RowOf(stats, key).query_engine,
                          storage_engine |-> RowOf(stats, key).storage_engine]
            ELSE tp[4] = << >>

\* A tuple was yielded for a replica whose server has no server_config row
\* while the stats table has the row of that table and server.
C10_Witness ==
    /\ Replicas.status = "ok"
    /\ \E i \in DOMAIN Replicas.rows :
          LET tp == Replicas.rows[i]
          IN  /\ ~HasRow(server_config, tp[3].server)
              /\ HasRow(stats, <<"table_server", tp[1].id, tp[3].server>>)
    /\ \E i \in DOMAIN Replicas.rows : Replicas.rows[i][4] # << >>

====
